---- MODULE Spec2Model ----
(***************************************************************************)
(* key-indicator (systray_multi_monitor.c): one tray icon per watched      *)
(* boolean attribute file.  The model follows main() statement by          *)
(* statement: argument parsing with the initial read_bool, the X11 set-up, *)
(* the reverse-order create/dock/draw loop, the inotify set-up and the     *)
(* select() loop with its X11 and inotify dispatch halves.  The file       *)
(* system, the X server (tray owner, event delivery) and signals are the   *)
(* environment.  Descriptors are numbered 1..nAttr (attrs[0..n_attr-1]).   *)
(***************************************************************************)
EXTENDS Integers, Sequences, FiniteSets, TLC

\* ---------------------------------------------------------------- bounds
MaxAttr == 2          \* at most this many command-line descriptors
MaxEnv == 2           \* at most this many environment steps in one run

\* ------------------------------------------------------ program constants
None == 0                    \* X11 None / calloc'ed field
READ_FAIL == -1              \* read_bool's failure return; also a failed wd
READ_MAX == 7                \* sizeof b - 1 in read_bool
ICON_SZ == 24
SIZEOF_INOTIFY_EVENT == 16   \* sizeof(struct inotify_event) on Linux
BUF_LEN == SIZEOF_INOTIFY_EVENT + 256
DEFAULT_FG == 0              \* "0x000000"
DEFAULT_BG_ACTIVE == 16777215    \* "0xFFFFFF"
DEFAULT_BG_INACTIVE == 3158064   \* "0x303030"
SYSTEM_TRAY_REQUEST_DOCK == 0

\* ------------------------------------------------------------ environment
Paths == {"a", "b"}
TrayIds == {91, 92}               \* window ids a tray owner may have
FirstTray == CHOOSE t \in TrayIds : \A u \in TrayIds : t <= u   \* the ids are interchangeable
ForeignWindows == {77}            \* a window of the display owned by no descriptor
NoFile == [exists |-> FALSE, data |-> <<>>]
Datas == { <<"0", "\n">>, <<"1", "\n">>, <<"2">>, <<"-", "1">> }
Contents == {NoFile} \cup {[exists |-> TRUE, data |-> d] : d \in Datas}

VARIABLES
    pc,        \* position in main()
    exitCode,  \* -1 while running, else main's return value
    exitAt,    \* the statement main returned from: usage, xopen, inotify, select
    nAttr,     \* n_attr = argc - 1
    idx,       \* the loop variable i of the start-up loops (1-based)
    path,      \* attrs[i].path
    state,     \* attrs[i].state
    stateRead, \* ghost: "fail" if attrs[i].state holds a failed read_bool
    wd,        \* attrs[i].wd
    win,       \* attrs[i].win
    display,   \* dpy: is the X connection open
    created,   \* descriptors in the order XCreateSimpleWindow was called
    wlog,      \* per descriptor, the requests issued on its window by create_window
    ownerSeen, \* per descriptor, what XGetSelectionOwner returned in dock_to_tray
    dockMsgs,  \* the client messages sent with XSendEvent, in order
    painted,   \* per descriptor, what the last draw_icon put on its window
    nDraw,     \* per descriptor, number of draw_icon calls
    file,      \* file system: content of each path
    watches,   \* inotify: path -> watch descriptor (0 = not watched)
    inoOpen,   \* ino_fd is a valid inotify instance
    inoq,      \* inotify: records queued in the kernel for ino_fd
    batch,     \* records of buf not yet processed (ptr .. buf+len)
    xconn,     \* X events on the socket, not yet read by Xlib
    xq,        \* X events in Xlib's queue
    rfds,      \* fd_set left by the last select()
    tray,      \* current owner of _NET_SYSTEM_TRAY_S<scr> (None = no owner)
    envLeft    \* environment steps still allowed

progVars == <<pc, exitCode, exitAt, nAttr, idx, path, state, stateRead, wd, win, display,
              created, wlog, ownerSeen, dockMsgs, painted, nDraw, batch, rfds>>
envVars == <<file, watches, inoOpen, inoq, xconn, xq, tray, envLeft>>
vars == <<pc, exitCode, exitAt, nAttr, idx, path, state, stateRead, wd, win, display,
          created, wlog, ownerSeen, dockMsgs, painted, nDraw, file, watches, inoOpen,
          inoq, batch, xconn, xq, rfds, tray, envLeft>>

Attrs == 1..MaxAttr
Live == 1..nAttr

\* ------------------------------------------------------------- read_bool
IsSpace(c) == c \in {" ", "\n", "\t"}
IsDigit(c) == c \in {"0", "1", "2", "3", "4", "5", "6", "7", "8", "9"}
DigitVal(c) == CASE c = "0" -> 0 [] c = "1" -> 1 [] c = "2" -> 2 [] c = "3" -> 3
                 [] c = "4" -> 4 [] c = "5" -> 5 [] c = "6" -> 6 [] c = "7" -> 7
                 [] c = "8" -> 8 [] OTHER -> 9

RECURSIVE SkipSpace(_)
SkipSpace(s) == IF s # <<>> /\ IsSpace(Head(s)) THEN SkipSpace(Tail(s)) ELSE s

RECURSIVE DigitsValue(_, _)
DigitsValue(s, acc) ==
    IF s # <<>> /\ IsDigit(Head(s))
    THEN DigitsValue(Tail(s), acc * 10 + DigitVal(Head(s)))
    ELSE acc

\* atoi(3): leading white space, an optional sign, then decimal digits
atoi(s) ==
    LET t == SkipSpace(s)
    IN  IF t # <<>> /\ Head(t) = "-" THEN 0 - DigitsValue(Tail(t), 0)
        ELSE IF t # <<>> /\ Head(t) = "+" THEN DigitsValue(Tail(t), 0)
        ELSE DigitsValue(t, 0)

Min(a, b) == IF a < b THEN a ELSE b

\* read(fd, b, sizeof b - 1): the first READ_MAX bytes of the file
ReadBytes(f) == SubSeq(f.data, 1, Min(Len(f.data), READ_MAX))

\* did open() or read() fail (n <= 0)
ReadFails(f) == ~f.exists \/ Len(ReadBytes(f)) = 0

read_bool(f) == IF ~f.exists THEN READ_FAIL
                ELSE IF Len(ReadBytes(f)) > 0 THEN atoi(ReadBytes(f))
                ELSE READ_FAIL

\* ------------------------------------------------------------- draw_icon
NoPaint == [bg |-> -1, fg |-> -1, label |-> FALSE, size |-> 0]

\* unsigned long bg = a->state ? a->bg_active : a->bg_inactive;
IconBg(s) == IF s # 0 THEN DEFAULT_BG_ACTIVE ELSE DEFAULT_BG_INACTIVE

\* if (a->state) { XSetForeground(fg); XDrawString(label) }
LabelDrawn(s) == s # 0

\* what draw_icon leaves on the window of a descriptor whose state is s
Appearance(s) == [bg |-> IconBg(s), fg |-> IF LabelDrawn(s) THEN DEFAULT_FG ELSE -1,
                  label |-> LabelDrawn(s), size |-> ICON_SZ]

\* x_flush: XSync reads everything on the socket into Xlib's queue
x_flush == /\ xq' = xq \o xconn
           /\ xconn' = <<>>

draw_icon(i, s) ==
    /\ painted' = [painted EXCEPT ![i] = Appearance(s)]
    /\ nDraw' = [nDraw EXCEPT ![i] = @ + 1]

\* ------------------------------------------------------------------ Init
Init ==
    /\ pc = "args"
    /\ exitCode = -1
    /\ nAttr \in 0..MaxAttr
    /\ idx = 0
    /\ path \in [Attrs -> Paths]
    /\ \A i \in Attrs : (i > nAttr \/ i = 1) => path[i] = "a"
    /\ state = [i \in Attrs |-> 0]
    /\ stateRead = [i \in Attrs |-> "none"]
    /\ wd = [i \in Attrs |-> 0]
    /\ win = [i \in Attrs |-> None]
    /\ display = FALSE
    /\ created = <<>>
    /\ wlog = [i \in Attrs |-> <<>>]
    /\ ownerSeen = [i \in Attrs |-> None]
    /\ dockMsgs = <<>>
    /\ painted = [i \in Attrs |-> NoPaint]
    /\ nDraw = [i \in Attrs |-> 0]
    /\ exitAt = "none"
    /\ file \in [Paths -> Contents]
    /\ \A p \in Paths : (\A i \in 1..nAttr : path[i] # p) => file[p] = NoFile
    /\ watches = [p \in Paths |-> [wd |-> 0, on |-> FALSE]]
    /\ inoOpen = FALSE
    /\ inoq = <<>>
    /\ batch = <<>>
    /\ xconn = <<>>
    /\ xq = <<>>
    /\ rfds = [x |-> FALSE, ino |-> FALSE]
    /\ tray \in {None, FirstTray}
    /\ envLeft = MaxEnv

\* --------------------------------------------------------------- start-up
Exit(code, at) == /\ pc' = "exit"
                  /\ exitCode' = code
                  /\ exitAt' = at

\* if (argc < 2) { usage; return 1; }
Usage ==
    /\ pc = "args"
    /\ nAttr < 1
    /\ Exit(1, "usage")
    /\ UNCHANGED <<nAttr, idx, path, state, stateRead, wd, win, display, created, wlog,
                   ownerSeen, dockMsgs, painted, nDraw, batch, rfds>>
    /\ UNCHANGED envVars

\* the argument loop: attrs[i].state = read_bool(attrs[i].path) for every argument
ParseArgs ==
    /\ pc = "args"
    /\ nAttr >= 1
    /\ state' = [i \in Attrs |-> IF i <= nAttr THEN read_bool(file[path[i]]) ELSE 0]
    /\ stateRead' = [i \in Attrs |->
                        IF i > nAttr THEN "none"
                        ELSE IF ReadFails(file[path[i]]) THEN "fail" ELSE "ok"]
    /\ pc' = "xopen"
    /\ UNCHANGED <<exitCode, exitAt, nAttr, idx, path, wd, win, display, created, wlog, ownerSeen, dockMsgs,
                   painted, nDraw, batch, rfds>>
    /\ UNCHANGED envVars

\* the create loop running forward, in command-line order
CreateLoop_Forward == [first |-> 1, step |-> 1, last |-> nAttr]

\* for (int i = n_attr - 1; i >= 0; --i), 1-based: first index, step, last index
CreateLoop == [first |-> nAttr, step |-> -1, last |-> 1]

CreateFirst == CreateLoop.first
CreateNext(i) == i + CreateLoop.step
CreateMore(i) == IF CreateLoop.step < 0 THEN i >= CreateLoop.last ELSE i <= CreateLoop.last

\* dpy = XOpenDisplay(NULL); if (!dpy) return 1;
XOpenFail ==
    /\ pc = "xopen"
    /\ Exit(1, "xopen")
    /\ UNCHANGED <<nAttr, idx, path, state, stateRead, wd, win, display, created, wlog,
                   ownerSeen, dockMsgs, painted, nDraw, batch, rfds>>
    /\ UNCHANGED envVars

\* XOpenDisplay succeeded; the create loop starts
XOpen ==
    /\ pc = "xopen"
    /\ display' = TRUE
    /\ pc' = "create"
    /\ idx' = CreateFirst
    /\ UNCHANGED <<exitCode, exitAt, nAttr, path, state, stateRead, wd, win, created, wlog,
                   ownerSeen, dockMsgs, painted, nDraw, batch, rfds>>
    /\ UNCHANGED envVars

\* XCreateSimpleWindow returns an id no other window has
NewWindow == Len(created) + 1

\* dock_to_tray without its if (!tray) return;
DockMessages_NoOwnerCheck(owner, w) ==
    << [to |-> owner, opcode |-> SYSTEM_TRAY_REQUEST_DOCK, window |-> w] >>

\* a dock request whose data.l[2] is the tray's window instead of the icon's
DockMessages_TrayAsPayload(owner, w) ==
    IF owner = None THEN <<>>
    ELSE <<[to |-> owner, opcode |-> SYSTEM_TRAY_REQUEST_DOCK, window |-> owner]>>

\* dock_to_tray(w): the messages sent, given the selection owner found
\* (if (!tray) return;)
DockMessages(owner, w) ==
    IF owner = None THEN <<>>
    ELSE << [to |-> owner, opcode |-> SYSTEM_TRAY_REQUEST_DOCK, window |-> w] >>

\* the Xlib calls create_window makes on the new window, in order; dock_to_tray
\* is its last statement
WindowRequests(owner, w) ==
    <<"XCreateSimpleWindow", "XChangeProperty_XEMBED_INFO", "XSelectInput_Exposure",
      "XMapWindow">>
        \o [k \in 1..Len(DockMessages(owner, w)) |-> "XSendEvent"]

\* create_window(&attrs[i]) in the reverse loop
CreateWindow ==
    /\ pc = "create"
    /\ CreateMore(idx)
    /\ win' = [win EXCEPT ![idx] = NewWindow]
    /\ created' = Append(created, idx)
    /\ wlog' = [wlog EXCEPT ![idx] = WindowRequests(tray, NewWindow)]
    /\ ownerSeen' = [ownerSeen EXCEPT ![idx] = tray]
    /\ dockMsgs' = dockMsgs \o DockMessages(tray, NewWindow)
    /\ pc' = "draw"
    /\ UNCHANGED <<exitCode, exitAt, nAttr, idx, path, state, stateRead, wd, display,
                   painted, nDraw, batch, rfds>>
    /\ UNCHANGED envVars

\* draw_icon(&attrs[i]) in the reverse loop, then --i
DrawNew ==
    /\ pc = "draw"
    /\ draw_icon(idx, state[idx])
    /\ x_flush
    /\ idx' = CreateNext(idx)
    /\ pc' = IF CreateMore(CreateNext(idx)) THEN "create" ELSE "inoinit"
    /\ UNCHANGED <<exitCode, exitAt, nAttr, path, state, stateRead, wd, win, display, created,
                   wlog, ownerSeen, dockMsgs, batch, rfds>>
    /\ UNCHANGED <<file, watches, inoOpen, inoq, tray, envLeft>>

\* inotify_add_watch(ino_fd, p, ...) with the watches ws in place: -1 if the path
\* cannot be resolved, the existing descriptor if the inode is already watched,
\* else a fresh one
AddWatchResult(p, ws) ==
    IF ~file[p].exists THEN READ_FAIL
    ELSE IF ws[p].on THEN ws[p].wd
    ELSE LET S == {ws[q].wd : q \in Paths}
         IN  1 + CHOOSE m \in S : \A k \in S : k <= m

RECURSIVE WatchesAfter(_, _)
\* the kernel's watches once descriptors 1..i are registered, starting from ws
WatchesAfter(i, ws) ==
    IF i = 0 THEN ws
    ELSE LET before == WatchesAfter(i - 1, ws)
             r == AddWatchResult(path[i], before)
         IN  IF r >= 0 THEN [before EXCEPT ![path[i]] = [wd |-> r, on |-> TRUE]]
             ELSE before

\* attrs[i].wd = inotify_add_watch(...) in the registration loop
WdAssigned(i, ws) == AddWatchResult(path[i], WatchesAfter(i - 1, ws))

\* a failed inotify_init1 that is not checked: the loop is entered without watches
InotifyFail_Ignored ==
    /\ pc = "inoinit"
    /\ wd' = [i \in Attrs |-> IF i <= nAttr THEN READ_FAIL ELSE wd[i]]
    /\ pc' = "wait"
    /\ UNCHANGED <<exitCode, exitAt, nAttr, idx, path, state, stateRead, win, display,
                   created, wlog, ownerSeen, dockMsgs, painted, nDraw, batch, rfds>>
    /\ UNCHANGED envVars

\* ino_fd = inotify_init1(IN_NONBLOCK); if (ino_fd < 0) return 1;
InotifyFail ==
    /\ pc = "inoinit"
    /\ Exit(1, "inotify")
    /\ UNCHANGED <<nAttr, idx, path, state, stateRead, wd, win, display, created, wlog,
                   ownerSeen, dockMsgs, painted, nDraw, batch, rfds>>
    /\ UNCHANGED envVars

\* inotify_init1 succeeded, then the registration loop; a failed registration
\* only prints a warning and leaves wd = -1
InotifyInit ==
    /\ pc = "inoinit"
    /\ inoOpen' = TRUE
    /\ wd' = [i \in Attrs |-> IF i <= nAttr THEN WdAssigned(i, watches) ELSE wd[i]]
    /\ watches' = WatchesAfter(nAttr, watches)
    /\ pc' = "wait"
    /\ UNCHANGED <<exitCode, exitAt, nAttr, idx, path, state, stateRead, win, display, created,
                   wlog, ownerSeen, dockMsgs, painted, nDraw, batch, rfds>>
    /\ UNCHANGED <<file, inoq, xconn, xq, tray, envLeft>>

\* ------------------------------------------------------------- event loop
\* select(): the X socket is readable / the inotify fd is readable
XReady == xconn # <<>>
InoReady == inoq # <<>>

\* select() returned > 0: rfds holds the ready descriptors
SelectReady ==
    /\ pc = "wait"
    /\ XReady \/ InoReady
    /\ rfds' = [x |-> XReady, ino |-> InoReady]
    /\ pc' = IF XReady THEN "xdisp" ELSE "inodisp"
    /\ UNCHANGED <<exitCode, exitAt, nAttr, idx, path, state, stateRead, wd, win, display,
                   created, wlog, ownerSeen, dockMsgs, painted, nDraw, batch>>
    /\ UNCHANGED envVars

\* select() < 0 with errno == EINTR without the continue: the failure path
SelectEintr_Break ==
    /\ pc = "wait"
    /\ envLeft > 0
    /\ envLeft' = envLeft - 1
    /\ Exit(0, "select_eintr")
    /\ UNCHANGED <<nAttr, idx, path, state, stateRead, wd, win, display,
                   created, wlog, ownerSeen, dockMsgs, painted, nDraw, batch, rfds>>
    /\ UNCHANGED <<file, watches, inoOpen, inoq, xconn, xq, tray>>

\* select() < 0 with errno == EINTR: continue.  The signal is a step of the
\* environment.
SelectEintr ==
    /\ pc = "wait"
    /\ envLeft > 0
    /\ envLeft' = envLeft - 1
    /\ pc' = "wait"
    /\ UNCHANGED <<exitCode, exitAt, nAttr, idx, path, state, stateRead, wd, win, display,
                   created, wlog, ownerSeen, dockMsgs, painted, nDraw, batch, rfds>>
    /\ UNCHANGED <<file, watches, inoOpen, inoq, xconn, xq, tray>>

\* select() < 0 otherwise: perror, break, return 0.  The failure is the
\* environment's doing and counts as one of its steps.
SelectFail ==
    /\ pc = "wait"
    /\ envLeft > 0
    /\ envLeft' = envLeft - 1
    /\ Exit(0, "select")
    /\ UNCHANGED <<nAttr, idx, path, state, stateRead, wd, win, display,
                   created, wlog, ownerSeen, dockMsgs, painted, nDraw, batch, rfds>>
    /\ UNCHANGED <<file, watches, inoOpen, inoq, xconn, xq, tray>>

\* the scan without the comparison of the windows: its first descriptor
FindByWin_First(w) == IF nAttr >= 1 THEN 1 ELSE 0

\* the linear scan for (i = 0; i < n_attr; ++i) if (ev.xexpose.window == attrs[i].win)
\* ... break: the first match, 0 if there is none
FindByWin(w) ==
    IF \E i \in Live : win[i] = w
    THEN CHOOSE i \in Live : win[i] = w /\ \A j \in Live : win[j] = w => i <= j
    ELSE 0

\* the linear scan if (attrs[i].wd == ie->wd) ... break
FindByWd(w) ==
    IF \E i \in Live : wd[i] = w
    THEN CHOOSE i \in Live : wd[i] = w /\ \A j \in Live : wd[j] = w => i <= j
    ELSE 0

\* XPending(dpy): Xlib's queue after reading what the socket holds
XPendingEvents == xq \o xconn

\* the drain loop as an if: it is left after the first event
XLoopDone_AfterOne(pending) == Len(pending) <= 1

\* is the X drain loop left: while (XPending(dpy))
XLoopDone(pending) == pending = <<>>

\* one iteration of while (XPending(dpy)) { XNextEvent; if Expose: draw_icon }
XEvent ==
    /\ pc = "xdisp"
    /\ rfds.x
    /\ ~XLoopDone(XPendingEvents)
    /\ LET ev == Head(XPendingEvents)
           i == IF ev.type = "Expose" THEN FindByWin(ev.window) ELSE 0
       IN  /\ IF i # 0
              THEN draw_icon(i, state[i])
              ELSE UNCHANGED <<painted, nDraw>>
    /\ xq' = Tail(XPendingEvents)
    /\ xconn' = <<>>
    /\ pc' = "xdisp"
    /\ UNCHANGED <<exitCode, exitAt, nAttr, idx, path, state, stateRead, wd, win, display,
                   created, wlog, ownerSeen, dockMsgs, batch, rfds>>
    /\ UNCHANGED <<file, watches, inoOpen, inoq, tray, envLeft>>

\* XPending(dpy) returned 0: the X half is finished
XDrained ==
    /\ pc = "xdisp"
    /\ rfds.x
    /\ XLoopDone(XPendingEvents)
    /\ pc' = IF rfds.ino THEN "inodisp" ELSE "wait"
    /\ UNCHANGED <<exitCode, exitAt, nAttr, idx, path, state, stateRead, wd, win, display,
                   created, wlog, ownerSeen, dockMsgs, painted, nDraw, batch, rfds>>
    /\ UNCHANGED envVars

RecordSize(r) == SIZEOF_INOTIFY_EVENT + r.len

RECURSIVE FitCount(_, _)
\* how many whole records from the head of q fit in room bytes
FitCount(q, room) ==
    IF q = <<>> \/ RecordSize(Head(q)) > room THEN 0
    ELSE 1 + FitCount(Tail(q), room - RecordSize(Head(q)))

\* a read that throws away what did not fit in buf
InoRead_DropRest ==
    /\ pc = "inodisp"
    /\ rfds.ino
    /\ LET n == FitCount(inoq, BUF_LEN)
       IN  /\ batch' = SubSeq(inoq, 1, n)
           /\ inoq' = <<>>
           /\ pc' = IF n > 0 THEN "inoproc" ELSE "wait"
    /\ UNCHANGED <<exitCode, exitAt, nAttr, idx, path, state, stateRead, wd, win, display,
                   created, wlog, ownerSeen, dockMsgs, painted, nDraw, rfds>>
    /\ UNCHANGED <<file, watches, inoOpen, xconn, xq, tray, envLeft>>

\* len = read(ino_fd, buf, sizeof buf): the whole records that fit in buf
InoRead ==
    /\ pc = "inodisp"
    /\ rfds.ino
    /\ LET n == FitCount(inoq, BUF_LEN)
       IN  /\ batch' = SubSeq(inoq, 1, n)
           /\ inoq' = SubSeq(inoq, n + 1, Len(inoq))
           /\ pc' = IF n > 0 THEN "inoproc" ELSE "wait"
    /\ UNCHANGED <<exitCode, exitAt, nAttr, idx, path, state, stateRead, wd, win, display,
                   created, wlog, ownerSeen, dockMsgs, painted, nDraw, rfds>>
    /\ UNCHANGED <<file, watches, inoOpen, xconn, xq, tray, envLeft>>

\* the update test without its v >= 0 half
ShouldUpdate_AnyChange(v, s) == v # s

\* if (v >= 0 && v != attrs[i].state)
ShouldUpdate(v, s) == v >= 0 /\ v # s

\* the record step without its draw_icon call
InoRecord_NoDraw ==
    /\ pc = "inoproc"
    /\ batch # <<>>
    /\ LET i == FindByWd(Head(batch).wd)
           v == IF i # 0 THEN read_bool(file[path[i]]) ELSE 0
       IN  /\ IF i # 0 /\ ShouldUpdate(v, state[i])
              THEN /\ state' = [state EXCEPT ![i] = v]
                   /\ stateRead' = [stateRead EXCEPT ![i] = "ok"]
              ELSE UNCHANGED <<state, stateRead>>
    /\ batch' = Tail(batch)
    /\ pc' = IF Tail(batch) # <<>> THEN "inoproc" ELSE "wait"
    /\ UNCHANGED <<exitCode, exitAt, nAttr, idx, path, wd, win, display, created, wlog,
                   ownerSeen, dockMsgs, rfds, painted, nDraw>>
    /\ UNCHANGED <<file, watches, inoOpen, inoq, tray, envLeft, xq, xconn>>

\* one iteration of while (ptr < buf + len): the record at ptr
InoRecord ==
    /\ pc = "inoproc"
    /\ batch # <<>>
    /\ LET i == FindByWd(Head(batch).wd)
           v == IF i # 0 THEN read_bool(file[path[i]]) ELSE 0
       IN  /\ IF i # 0 /\ ShouldUpdate(v, state[i])
              THEN /\ state' = [state EXCEPT ![i] = v]
                   /\ stateRead' = [stateRead EXCEPT ![i] = "ok"]
                   /\ draw_icon(i, v)
                   /\ x_flush
              ELSE UNCHANGED <<state, stateRead, painted, nDraw, xq, xconn>>
    /\ batch' = Tail(batch)
    /\ pc' = IF Tail(batch) # <<>> THEN "inoproc" ELSE "wait"
    /\ UNCHANGED <<exitCode, exitAt, nAttr, idx, path, wd, win, display, created, wlog,
                   ownerSeen, dockMsgs, rfds>>
    /\ UNCHANGED <<file, watches, inoOpen, inoq, tray, envLeft>>

\* ------------------------------------------------------------ environment
\* The environment acts while the program runs.  What it did before main()
\* started is the initial state.
EnvMayAct == envLeft > 0 /\ pc \notin {"args", "exit"}

\* An environment step is taken right before a program step that can observe it:
\* the program steps in between read none of what it changes, so taking it
\* earlier leads to the same states of the program.
\*   files and the inotify queue: read by the registration loop, select(),
\*     read(ino_fd) and read_bool
\*   X events on the socket: read by XSync (draw_icon), select() and XPending
\*   the tray selection: read by dock_to_tray only, so one point after the
\*     create loop stands for every later one
FileStepSeen == pc \in {"inoinit", "wait", "inodisp", "inoproc"}
XStepSeen == pc \in {"draw", "wait", "xdisp", "inoproc"}
TrayStepSeen == pc \in {"create", "inoinit"}

UsedPaths == {path[i] : i \in Live}

Record(w) == [wd |-> w, len |-> 0]

\* another process writes, creates or unlinks a source file.  A write to a watched
\* inode queues a record (IN_MODIFY / IN_CLOSE_WRITE); an unlink queues IN_ATTRIB
\* and IN_IGNORED and removes the watch; a newly created file is a new inode.
EnvSetFile ==
    /\ EnvMayAct
    /\ FileStepSeen
    /\ \E p \in UsedPaths, c \in Contents :
         /\ file[p].exists \/ c.exists
         /\ file' = [file EXCEPT ![p] = c]
         /\ IF watches[p].on /\ c.exists
            THEN /\ inoq' = Append(inoq, Record(watches[p].wd))
                 /\ watches' = watches
            ELSE IF watches[p].on
            THEN /\ inoq' = inoq \o <<Record(watches[p].wd), Record(watches[p].wd)>>
                 /\ watches' = [watches EXCEPT ![p].on = FALSE]
            ELSE UNCHANGED <<inoq, watches>>
    /\ envLeft' = envLeft - 1
    /\ UNCHANGED progVars
    /\ UNCHANGED <<inoOpen, xconn, xq, tray>>

\* the kernel's event queue overflowed: IN_Q_OVERFLOW is queued with wd = -1
EnvOverflow ==
    /\ EnvMayAct
    /\ FileStepSeen
    /\ inoOpen
    /\ \E p \in Paths : watches[p].on
    /\ inoq' = Append(inoq, Record(-1))
    /\ envLeft' = envLeft - 1
    /\ UNCHANGED progVars
    /\ UNCHANGED <<file, watches, inoOpen, xconn, xq, tray>>

\* the events the server may send: Expose of any window, and other event types
XEvents ==
    {[type |-> "Expose", window |-> w] : w \in {win[i] : i \in Live} \cup ForeignWindows}
        \cup {[type |-> "Other", window |-> w] : w \in ForeignWindows}

\* the X server sends an event to this client
EnvXEvent ==
    /\ EnvMayAct
    /\ XStepSeen
    /\ display
    /\ \E e \in XEvents :
         /\ e.window # None
         /\ xconn' = Append(xconn, e)
    /\ envLeft' = envLeft - 1
    /\ UNCHANGED progVars
    /\ UNCHANGED <<file, watches, inoOpen, inoq, xq, tray>>

\* a tray manager acquires or releases the _NET_SYSTEM_TRAY_S<scr> selection
EnvTray ==
    /\ EnvMayAct
    /\ TrayStepSeen
    /\ \E t \in {None} \cup TrayIds :
         /\ t # tray
         /\ tray' = t
    /\ envLeft' = envLeft - 1
    /\ UNCHANGED progVars
    /\ UNCHANGED <<file, watches, inoOpen, inoq, xconn, xq>>

Next ==
    \/ Usage
    \/ ParseArgs
    \/ XOpenFail
    \/ XOpen
    \/ CreateWindow
    \/ DrawNew
    \/ InotifyFail
    \/ InotifyInit
    \/ SelectReady
    \/ SelectEintr
    \/ SelectFail
    \/ XEvent
    \/ XDrained
    \/ InoRead
    \/ InoRecord
    \/ EnvSetFile
    \/ EnvOverflow
    \/ EnvXEvent
    \/ EnvTray

Spec == Init /\ [][Next]_vars

\* ================================================================ properties
LoopPcs == {"wait", "xdisp", "inodisp", "inoproc"}
DispatchPcs == {"xdisp", "inodisp", "inoproc"}

\* a step of the program (every environment step uses up envLeft)
ProgStep == envLeft' = envLeft

\* the tri-valued state of the specification: a cached value st stored from a
\* read that failed or not (rd)
Class(st, rd) == IF rd = "fail" THEN "unknown"
                 ELSE IF st # 0 THEN "active" ELSE "inactive"

\* what read_state returns for a file
ReadClass(f) == IF ReadFails(f) THEN "unknown"
                ELSE IF read_bool(f) # 0 THEN "active" ELSE "inactive"

InactiveLook == [bg |-> DEFAULT_BG_INACTIVE, fg |-> -1, label |-> FALSE, size |-> ICON_SZ]
ActiveLook == [bg |-> DEFAULT_BG_ACTIVE, fg |-> DEFAULT_FG, label |-> TRUE, size |-> ICON_SZ]

\* the step InoRecord on a record that resolves to descriptor i
RecordStepFor(i) ==
    /\ pc = "inoproc"
    /\ batch # <<>>
    /\ batch' = Tail(batch)
    /\ ProgStep
    /\ FindByWd(Head(batch).wd) = i

\* C1: whenever a descriptor's state is unknown (its source could not be opened
\* or read), the paint on its window has background bg_inactive and no label.
\* stateRead[i] = "fail" lasts until a successful re-read, which repaints, so the
\* paint on the window of such a descriptor was made from the unknown state.
C1_UnknownPaintedInactive ==
    \A i \in Live :
        (stateRead[i] = "fail" /\ nDraw[i] > 0) => painted[i] = InactiveLook

\* C2: on a notification record for a descriptor whose re-read fails, the cached
\* state is left as it was and nothing is drawn; and in the event loop a cached
\* state never changes to a negative value or to one stored from a failed read.
C2_FailedRereadKeepsState ==
    [][\A i \in Live :
          /\ (RecordStepFor(i) /\ ReadFails(file[path[i]]))
                => /\ state'[i] = state[i]
                   /\ stateRead'[i] = stateRead[i]
                   /\ nDraw'[i] = nDraw[i]
                   /\ painted'[i] = painted[i]
          /\ (pc \in LoopPcs /\ state'[i] # state[i])
                => /\ state'[i] >= 0
                   /\ stateRead'[i] = "ok"
          /\ (pc \in LoopPcs /\ stateRead[i] # "fail") => stateRead'[i] # "fail"
      ]_vars

\* C2 witness: a watched descriptor whose source was unlinked; both records of the
\* unlink were dispatched with the re-read failing, and the cached active state
\* and its paint are still there.
C2_Witness ==
    \E i \in Live :
        /\ pc = "wait"
        /\ wd[i] > 0
        /\ FindByWd(wd[i]) = i
        /\ ~file[path[i]].exists
        /\ ~watches[path[i]].on
        /\ inoq = <<>>
        /\ batch = <<>>
        /\ state[i] = 1
        /\ stateRead[i] = "ok"
        /\ painted[i] = ActiveLook

\* C3: a record whose re-read yields the cached active/inactive value draws
\* nothing, a record whose re-read yields a different value updates the cached
\* state and draws once, and so each record step draws a descriptor exactly when
\* its active/inactive/unknown state changes.
C3_RedrawIffStateChange ==
    [][\A i \in Live :
          LET f == file[path[i]]
              old == Class(state[i], stateRead[i])
              new == Class(state'[i], stateRead'[i])
          IN  /\ (RecordStepFor(i) /\ ~ReadFails(f) /\ ReadClass(f) = old)
                    => (nDraw'[i] = nDraw[i] /\ new = old)
              /\ (RecordStepFor(i) /\ ~ReadFails(f) /\ ReadClass(f) # old)
                    => (nDraw'[i] = nDraw[i] + 1 /\ new = ReadClass(f))
              /\ (pc = "inoproc" /\ ProgStep)
                    => (nDraw'[i] - nDraw[i] = IF new # old THEN 1 ELSE 0)
      ]_vars

\* the row of a tray that puts each newly docked window at the left end,
\* read left to right
RECURSIVE TrayRow(_)
TrayRow(msgs) == IF msgs = <<>> THEN <<>>
                 ELSE TrayRow(Tail(msgs)) \o <<Head(msgs).window>>

CreateLoopDone == display /\ pc \notin {"create", "draw"}

\* C4: the windows are created in the order dn, ..., d1, each painted before the
\* next is created, the dock requests go out in that order, and a tray that puts
\* each newly docked window at the same end shows the icons in input order.
C4_ReverseCreationOrder ==
    /\ \A k \in 1..Len(created) : created[k] = nAttr - k + 1
    /\ CreateLoopDone => Len(created) = nAttr
    /\ \A k \in 1..Len(created) :
          nDraw[created[k]] = 0 => (k = Len(created) /\ pc = "draw")
    /\ \A k, l \in 1..Len(dockMsgs) :
          k < l => FindByWin(dockMsgs[k].window) > FindByWin(dockMsgs[l].window)
    /\ \A k, l \in 1..Len(dockMsgs) :
          k < l => FindByWin(TrayRow(dockMsgs)[k]) < FindByWin(TrayRow(dockMsgs)[l])
    /\ (CreateLoopDone /\ \A i \in Live : ownerSeen[i] # None)
          => TrayRow(dockMsgs) = [i \in 1..nAttr |-> win[i]]

\* C4 witness: start-up is over, every window was docked, more than one icon
C4_Witness ==
    /\ pc = "wait"
    /\ nAttr >= 2
    /\ Len(dockMsgs) = nAttr
    /\ TrayRow(dockMsgs) = [i \in 1..nAttr |-> win[i]]
    /\ created[1] = nAttr

\* C5: when the event loop first waits, a descriptor's icon is painted bg_active
\* iff its initial read succeeded with a nonzero value, and bg_inactive otherwise.
\* With one paint so far (nDraw = 1) the paint and the cached state are those of
\* start-up.
C5_StartupBackground ==
    pc = "wait" =>
        \A i \in Live :
            nDraw[i] = 1 =>
                /\ painted[i].bg = DEFAULT_BG_ACTIVE
                      <=> (stateRead[i] = "ok" /\ state[i] # 0)
                /\ painted[i].bg # DEFAULT_BG_ACTIVE => painted[i].bg = DEFAULT_BG_INACTIVE

\* the dock requests sent for the window of descriptor i
DockRequestsFor(i) == {k \in 1..Len(dockMsgs) : dockMsgs[k].window = win[i]}

\* the step XEvent on an Expose event of the window of descriptor i
ExposeStepFor(i) ==
    /\ pc = "xdisp"
    /\ rfds.x
    /\ ProgStep
    /\ XPendingEvents # <<>>
    /\ xq' = Tail(XPendingEvents)
    /\ Head(XPendingEvents) = [type |-> "Expose", window |-> win[i]]

\* C6: a window created while the tray selection has no owner gets no dock
\* request; it is still created, given its property, subscribed, mapped and
\* painted; it is redrawn on exposure and on a change of state; and no dock
\* request for it is sent later, whatever the selection owner becomes.
C6_NoTrayNoDock ==
    /\ [](\A k \in 1..Len(created) :
             LET i == created[k]
             IN  /\ ownerSeen[i] = None => DockRequestsFor(i) = {}
                 /\ ownerSeen[i] # None => Cardinality(DockRequestsFor(i)) = 1
                 /\ win[i] # None
                 /\ SubSeq(wlog[i], 1, 4) =
                       <<"XCreateSimpleWindow", "XChangeProperty_XEMBED_INFO",
                         "XSelectInput_Exposure", "XMapWindow">>
                 /\ (pc # "draw" \/ k < Len(created)) => nDraw[i] >= 1)
    /\ [][\A i \in Live :
             /\ (win[i] # None /\ DockRequestsFor(i) = {}) => DockRequestsFor(i)' = {}
             /\ win[i] # None => (dockMsgs' = dockMsgs \/ pc = "create")
             /\ ExposeStepFor(i) => (nDraw'[i] = nDraw[i] + 1
                                     /\ painted'[i] = Appearance(state[i]))
             /\ (RecordStepFor(i) /\ state'[i] # state[i])
                   => (nDraw'[i] = nDraw[i] + 1 /\ painted'[i] = Appearance(state'[i]))
         ]_vars

\* C6 witness: a tray appeared between two creations: the earlier window is not
\* docked, the later one is, a tray owns the selection now, and the undocked
\* window has been redrawn since start-up.
C6_Witness ==
    \E i, j \in Live :
        /\ pc = "wait"
        /\ j < i
        /\ ownerSeen[i] = None
        /\ DockRequestsFor(i) = {}
        /\ ownerSeen[j] # None
        /\ DockRequestsFor(j) # {}
        /\ tray # None
        /\ nDraw[i] >= 2

\* C7: a descriptor whose watch registration failed (wd = -1) keeps its cached
\* state and its paint in the event loop, whatever records arrive.
C7_UnwatchedNeverChanges ==
    [][\A i \in Live :
          (pc \in LoopPcs /\ wd[i] = READ_FAIL)
              => (state'[i] = state[i] /\ stateRead'[i] = stateRead[i]
                  /\ (ProgStep /\ pc = "inoproc" => nDraw'[i] = nDraw[i]))
      ]_vars

\* C8: in a wake in which both descriptors are ready, the X half runs first and
\* is left only when no X event is pending; no notification record is read or
\* processed and no cached state changes before that.
C8_XDrainedBeforeInotify ==
    [][/\ (pc = "wait" /\ ProgStep /\ pc' \in DispatchPcs /\ XReady) => pc' = "xdisp"
       /\ (pc = "xdisp" /\ ProgStep)
             => /\ batch' = batch
                /\ inoq' = inoq
                /\ state' = state
                /\ pc' # "xdisp" => (xq = <<>> /\ xconn = <<>>
                                     /\ xq' = <<>> /\ xconn' = <<>>)
       /\ (pc # "inodisp" /\ ProgStep) => Len(inoq') >= Len(inoq)
      ]_vars

\* C8 witness: both were ready, an Expose was dispatched (a second paint), the X
\* queue is empty and the notification stream is about to be read
C8_Witness ==
    /\ pc = "inodisp"
    /\ rfds.x
    /\ rfds.ino
    /\ xq = <<>>
    /\ xconn = <<>>
    /\ inoq # <<>>
    /\ \E i \in Live : nDraw[i] >= 2

\* C9: the loop alternates WAITING -> DISPATCH -> WAITING.  A step that stays in
\* the wait (an interrupted select) changes nothing of the program; dispatch is
\* entered only from the wait with a descriptor ready and ends in the wait; the
\* loop is left only from the wait, by the select failure.
C9_WaitDispatchWait ==
    [][/\ pc = "wait" => pc' \in {"wait", "xdisp", "inodisp", "exit"}
       /\ (pc = "wait" /\ pc' = "wait") => UNCHANGED progVars
       /\ (pc = "wait" /\ pc' \in DispatchPcs)
             => (rfds' = [x |-> XReady, ino |-> InoReady] /\ (XReady \/ InoReady))
       /\ pc \in DispatchPcs => pc' \in DispatchPcs \cup {"wait"}
       /\ (pc \in LoopPcs /\ pc' = "exit")
             => /\ pc = "wait"
                /\ exitAt' = "select"
                /\ exitCode' = 0
                /\ UNCHANGED <<state, stateRead, painted, nDraw, wd, win, batch, rfds,
                               dockMsgs, inoq, xq, xconn>>
      ]_vars

\* C9 witness: the select failure ended a loop that had dispatched before
C9_Witness ==
    /\ pc = "exit"
    /\ exitAt = "select"
    /\ exitCode = 0
    /\ \E i \in Live : nDraw[i] >= 2

\* C10: exit code 0 comes only from the select failure in the event loop; a
\* missing argument list, a failed XOpenDisplay and a failed inotify_init1 each
\* end the process with 1 before the loop is entered; a failed watch registration
\* does not end it.
C10_ExitCodes ==
    /\ pc = "exit" <=> exitCode # -1
    /\ exitCode \in {-1, 0, 1}
    /\ exitCode = 0 <=> exitAt = "select"
    /\ exitCode = 1 <=> exitAt \in {"usage", "xopen", "inotify"}
    /\ exitAt = "usage" <=> (nAttr < 1 /\ pc # "args")
    /\ exitAt = "xopen" => (nAttr >= 1 /\ ~display /\ created = <<>>)
    /\ exitAt = "inotify" => (display /\ ~inoOpen)
    /\ exitCode = 1 => ~inoOpen
    /\ pc \in LoopPcs \/ exitAt = "select" => (nAttr >= 1 /\ display /\ inoOpen)
    /\ (pc \in {"create", "draw", "inoinit"}) => display

\* C10 witness: a watch registration had failed and the process went on until the
\* select failure
C10_Witness ==
    /\ pc = "exit"
    /\ exitCode = 0
    /\ \E i \in Live : wd[i] = READ_FAIL

\* ------------------------------------------------- the round trip 0 -> 1 -> 0
\* The source of descriptor 1 holds "0\n" when main() starts; another process
\* then writes "1\n", "0\n", "1\n", ... into it, each write made while the loop
\* waits with every earlier record dispatched.  No X event and no signal arrives,
\* so the X half of the loop and the select() failures are never entered.
RoundTripPath == "a"
ZeroFile == [exists |-> TRUE, data |-> <<"0", "\n">>]
OneFile == [exists |-> TRUE, data |-> <<"1", "\n">>]
Toggled(f) == IF f = ZeroFile THEN OneFile ELSE ZeroFile

InitRoundTrip ==
    /\ Init
    /\ nAttr >= 1 => file[RoundTripPath] = ZeroFile

\* one write of the other value into the watched source: one record is queued
EnvToggle ==
    /\ EnvMayAct
    /\ pc = "wait"
    /\ inoq = <<>>
    /\ batch = <<>>
    /\ watches[RoundTripPath].on
    /\ file' = [file EXCEPT ![RoundTripPath] = Toggled(file[RoundTripPath])]
    /\ inoq' = Append(inoq, Record(watches[RoundTripPath].wd))
    /\ envLeft' = envLeft - 1
    /\ UNCHANGED progVars
    /\ UNCHANGED <<watches, inoOpen, xconn, xq, tray>>

NextRoundTrip ==
    \/ Usage
    \/ ParseArgs
    \/ XOpenFail
    \/ XOpen
    \/ CreateWindow
    \/ DrawNew
    \/ InotifyFail
    \/ InotifyInit
    \/ SelectReady
    \/ InoRead
    \/ InoRecord
    \/ EnvToggle

SpecRoundTrip == InitRoundTrip /\ [][NextRoundTrip]_vars

\* the writes made so far in a behaviour of SpecRoundTrip
WritesSoFar == MaxEnv - envLeft

\* descriptor i has been redrawn once per write, the last paint showing the
\* value written last
RoundTripSeenBy(i) ==
    /\ nDraw[i] = 1 + WritesSoFar
    /\ painted[i] = IF WritesSoFar % 2 = 1 THEN ActiveLook ELSE InactiveLook
    /\ Class(state[i], stateRead[i]) = IF WritesSoFar % 2 = 1 THEN "active" ELSE "inactive"

RoundTripQuiet == pc = "wait" /\ inoq = <<>> /\ batch = <<>>

\* C11: a descriptor whose cached state is inactive and whose source is written
\* to 1 and then to 0, each record dispatched before the next write, is redrawn
\* exactly once per write: after the first write its paint is the active
\* appearance, after the second the inactive one (after k writes it has been
\* drawn 1 + k times, the start-up paint included).
C11_RoundTripRedraws ==
    RoundTripQuiet =>
        \A i \in Live : path[i] = RoundTripPath => RoundTripSeenBy(i)

\* the same for the descriptors that are the first holder of their handle
RoundTripOfFirstHolder ==
    RoundTripQuiet =>
        \A i \in Live :
            (path[i] = RoundTripPath /\ FindByWd(wd[i]) = i) => RoundTripSeenBy(i)

\* both writes were made and dispatched
RoundTripDone ==
    /\ RoundTripQuiet
    /\ WritesSoFar = 2
    /\ RoundTripSeenBy(1)

\* the leading integer of a readable file
LeadingInt(f) == atoi(ReadBytes(f))

\* C12: read_bool's result stands for "unknown" only when the open or the read
\* failed, a file whose leading integer is nonzero (negative included) is active
\* and one whose leading integer is 0 is inactive; and a record whose re-read
\* succeeds with a nonzero value leaves the descriptor cached active and painted
\* active, the negative values too.
C12_NonzeroIsActive ==
    /\ [](\A p \in Paths :
             LET f == file[p]
             IN  /\ read_bool(f) = READ_FAIL <=> ReadFails(f)
                 /\ ~ReadFails(f) =>
                       (ReadClass(f) = IF LeadingInt(f) # 0 THEN "active" ELSE "inactive"))
    /\ [][\A i \in Live :
             LET f == file[path[i]]
             IN  (RecordStepFor(i) /\ ~ReadFails(f) /\ LeadingInt(f) # 0)
                    => /\ Class(state'[i], stateRead'[i]) = "active"
                       /\ painted'[i] = ActiveLook
         ]_vars

\* the update policy alone: what the record step does with a negative value
NegativeRereadIsActive ==
    [][\A i \in Live :
          LET f == file[path[i]]
          IN  (RecordStepFor(i) /\ ~ReadFails(f) /\ LeadingInt(f) < 0)
                 => Class(state'[i], stateRead'[i]) = "active"
      ]_vars

\* a record carrying the handle of descriptor i is queued or read but not processed
Undelivered(i) ==
    \/ \E k \in 1..Len(inoq) : inoq[k].wd = wd[i]
    \/ \E k \in 1..Len(batch) : batch[k].wd = wd[i]

\* C13: whenever the loop waits and no record for a descriptor is undelivered,
\* the cached state of a descriptor that holds a notification handle and whose
\* source is readable is the current value of the source; a change made between
\* the initial read and the registration of the watch included.
C13_CacheMirrorsSource ==
    pc = "wait" =>
        \A i \in Live :
            (wd[i] > 0 /\ ~ReadFails(file[path[i]]) /\ ~Undelivered(i))
                => Class(state[i], stateRead[i]) = ReadClass(file[path[i]])

\* the step XEvent: one event is taken from Xlib's queue
XEventStep ==
    /\ pc = "xdisp"
    /\ rfds.x
    /\ ProgStep
    /\ XPendingEvents # <<>>
    /\ xq' = Tail(XPendingEvents)

\* the event at the head of Xlib's queue is an Expose of a descriptor's window
OwnedExpose == \E i \in Live : Head(XPendingEvents) = [type |-> "Expose", window |-> win[i]]

\* C14: an Expose redraws the one descriptor whose window it names, from the
\* cached state, and no other; an Expose of a window no descriptor owns and an
\* event of another type draw nothing; the X half leaves state, wd and win of
\* every descriptor alone; and in the event loop a cached state changes only in
\* the step that processes a notification record.
C14_ExposeRedrawsOwnerOnly ==
    [][/\ \A i \in Live :
             ExposeStepFor(i)
                => /\ nDraw'[i] = nDraw[i] + 1
                   /\ painted'[i] = Appearance(state[i])
                   /\ \A j \in Live \ {i} : nDraw'[j] = nDraw[j] /\ painted'[j] = painted[j]
       /\ (XEventStep /\ ~OwnedExpose) => (nDraw' = nDraw /\ painted' = painted)
       /\ (pc = "xdisp" /\ ProgStep)
             => (state' = state /\ stateRead' = stateRead /\ wd' = wd /\ win' = win)
       /\ (pc \in LoopPcs /\ (state' # state \/ stateRead' # stateRead))
             => (pc = "inoproc" /\ ProgStep /\ batch # <<>>)
      ]_vars

\* C14 witness: the source of a descriptor was rewritten and its window exposed
\* in the same wait; the Expose has been dispatched: the second paint of that
\* descriptor, and only of that one, shows the cached state, which is not the
\* value the source holds now.
C14_Witness ==
    \E i \in Live :
        /\ pc = "xdisp"
        /\ rfds.x
        /\ xq = <<>>
        /\ xconn = <<>>
        /\ nAttr >= 2
        /\ nDraw[i] = 2
        /\ \A j \in Live \ {i} : nDraw[j] = 1
        /\ painted[i] = Appearance(state[i])
        /\ Undelivered(i)
        /\ ~ReadFails(file[path[i]])
        /\ ReadClass(file[path[i]]) # Class(state[i], stateRead[i])

\* --------------------------------------------- the notification stream, batched
\* A source may be a directory: open() succeeds, read() fails (EISDIR), and the
\* watch reports the files in it with records that carry a name, of up to
\* NAME_MAX + 1 bytes.  Two such records do not fit in buf together.
DirFile == [exists |-> TRUE, data |-> <<>>]
ShortNameLen == 16
MaxNameLen == 256
NameLens == {ShortNameLen, MaxNameLen}

InitStream ==
    /\ pc = "args"
    /\ exitCode = -1
    /\ exitAt = "none"
    /\ nAttr \in 0..MaxAttr
    /\ idx = 0
    /\ path \in [Attrs -> Paths]
    /\ \A i \in Attrs : (i > nAttr \/ i = 1) => path[i] = "a"
    /\ state = [i \in Attrs |-> 0]
    /\ stateRead = [i \in Attrs |-> "none"]
    /\ wd = [i \in Attrs |-> 0]
    /\ win = [i \in Attrs |-> None]
    /\ display = FALSE
    /\ created = <<>>
    /\ wlog = [i \in Attrs |-> <<>>]
    /\ ownerSeen = [i \in Attrs |-> None]
    /\ dockMsgs = <<>>
    /\ painted = [i \in Attrs |-> NoPaint]
    /\ nDraw = [i \in Attrs |-> 0]
    /\ file \in [Paths -> {NoFile, DirFile, OneFile}]
    /\ \A p \in Paths : (\A i \in 1..nAttr : path[i] # p) => file[p] = NoFile
    /\ watches = [p \in Paths |-> [wd |-> 0, on |-> FALSE]]
    /\ inoOpen = FALSE
    /\ inoq = <<>>
    /\ batch = <<>>
    /\ xconn = <<>>
    /\ xq = <<>>
    /\ rfds = [x |-> FALSE, ino |-> FALSE]
    /\ tray \in {None, FirstTray}
    /\ envLeft = MaxEnv

\* a file in a watched directory is written: a record with the file's name
EnvDirEntry ==
    /\ EnvMayAct
    /\ FileStepSeen
    /\ \E p \in UsedPaths, l \in NameLens :
         /\ watches[p].on
         /\ file[p] = DirFile
         /\ inoq' = Append(inoq, [wd |-> watches[p].wd, len |-> l])
    /\ envLeft' = envLeft - 1
    /\ UNCHANGED progVars
    /\ UNCHANGED <<file, watches, inoOpen, xconn, xq, tray>>

\* the steps main() takes by itself
ProgramStep ==
    \/ Usage
    \/ ParseArgs
    \/ XOpenFail
    \/ XOpen
    \/ CreateWindow
    \/ DrawNew
    \/ InotifyFail
    \/ InotifyInit
    \/ SelectReady
    \/ XEvent
    \/ XDrained
    \/ InoRead
    \/ InoRecord

NextStream ==
    \/ ProgramStep
    \/ SelectEintr
    \/ SelectFail
    \/ EnvDirEntry
    \/ EnvXEvent

\* the process is scheduled again and again: a step main() can take is taken
SpecStream == InitStream /\ [][NextStream]_vars /\ WF_vars(ProgramStep)

RECURSIVE BatchBytes(_)
BatchBytes(q) == IF q = <<>> THEN 0 ELSE RecordSize(Head(q)) + BatchBytes(Tail(q))

\* C15: every record put on the notification stream is read and processed once,
\* in the order of delivery: a read takes from the head of the stream the records
\* that fit in buf, at least one, and leaves the others queued in their order; the
\* records of a batch are processed one by one from its head before the loop
\* waits again; no other step of the program touches the stream or the batch, and
\* the environment only appends; and under fair scheduling of main() the stream
\* and the batch are emptied again and again as long as the loop runs.
C15_StreamProcessedInOrder ==
    /\ [](pc \in {"wait", "xdisp", "inodisp"} => batch = <<>>)
    /\ [][/\ (pc = "inodisp" /\ ProgStep)
                => /\ batch' \o inoq' = inoq
                   /\ inoq # <<>> => batch' # <<>>
                   /\ BatchBytes(batch') <= BUF_LEN
                   /\ inoq' # <<>> => BatchBytes(batch') + RecordSize(Head(inoq')) > BUF_LEN
          /\ (pc = "inoproc" /\ ProgStep)
                => /\ batch # <<>>
                   /\ batch' = Tail(batch)
                   /\ inoq' = inoq
                   /\ pc' = "wait" <=> batch' = <<>>
          /\ (pc \notin {"inodisp", "inoproc"} /\ ProgStep)
                => (inoq' = inoq /\ batch' = batch)
          /\ ~ProgStep
                => /\ batch' = batch
                   /\ Len(inoq') >= Len(inoq)
                   /\ SubSeq(inoq', 1, Len(inoq)) = inoq
         ]_vars
    /\ (inoq # <<>> \/ batch # <<>>) ~> ((inoq = <<>> /\ batch = <<>>) \/ pc = "exit")

\* C15 witness: a read returned a batch and left on the stream a record that did
\* not fit in buf with it
C15_Witness ==
    /\ pc = "inoproc"
    /\ batch # <<>>
    /\ inoq # <<>>
    /\ BatchBytes(batch) + RecordSize(Head(inoq)) > BUF_LEN

\* C16: a record is dispatched to every descriptor that holds its handle: each
\* of them is re-read, and each whose re-read passes the update test gets the
\* new state and one redraw, the second descriptor of a path like the first.
C16_SharedHandleUpdatesAll ==
    [][\A j \in Live :
          LET v == read_bool(file[path[j]])
          IN  (/\ pc = "inoproc"
               /\ ProgStep
               /\ batch # <<>>
               /\ wd[j] > 0
               /\ wd[j] = Head(batch).wd
               /\ ShouldUpdate(v, state[j]))
                 => /\ state'[j] = v
                    /\ nDraw'[j] = nDraw[j] + 1
                    /\ painted'[j] = Appearance(v)
      ]_vars

\* C17: whenever the loop is in its wait, the last paint of every descriptor is
\* the appearance draw_icon produces from the cached state the descriptor has now.
C17_PaintMatchesCache ==
    pc = "wait" => \A i \in Live : painted[i] = Appearance(state[i])

\* C17 witness: the loop waits again after its only wake so far, one for the
\* notification stream alone, in which a record changed a cached state and the
\* descriptor was painted a second time
C17_Witness ==
    \E i \in Live :
        /\ pc = "wait"
        /\ rfds = [x |-> FALSE, ino |-> TRUE]
        /\ envLeft = MaxEnv - 1
        /\ inoq = <<>>
        /\ batch = <<>>
        /\ nDraw[i] = 2
        /\ state[i] = 1
        /\ painted[i] = ActiveLook

\* C18: every descriptor gets one window, created once during start-up, and its
\* handle never changes; on that window the _XEMBED_INFO property is set,
\* exposure is selected and the window is mapped, in this order, before the dock
\* request; a window gets at most one dock request, sent to the selection owner
\* found in dock_to_tray, with the request-dock opcode and the window's id.
C18_EmbeddingHandshake ==
    /\ [](/\ \A k, l \in 1..Len(created) : k # l => created[k] # created[l]
          /\ \A i \in Live : win[i] # None <=> \E k \in 1..Len(created) : created[k] = i
          /\ \A i, j \in Live : (i # j /\ win[i] # None) => win[i] # win[j]
          /\ pc \in LoopPcs => \A i \in Live : win[i] # None
          /\ \A k \in 1..Len(dockMsgs) : \E i \in Live : dockMsgs[k].window = win[i]
          /\ \A i \in Live :
                win[i] # None =>
                   /\ Len(wlog[i]) \in {4, 5}
                   /\ SubSeq(wlog[i], 1, 4) =
                         <<"XCreateSimpleWindow", "XChangeProperty_XEMBED_INFO",
                           "XSelectInput_Exposure", "XMapWindow">>
                   /\ Len(wlog[i]) = 5 => wlog[i][5] = "XSendEvent"
                   /\ Cardinality(DockRequestsFor(i)) = Len(wlog[i]) - 4
                   /\ \A k \in DockRequestsFor(i) :
                         /\ ownerSeen[i] # None
                         /\ dockMsgs[k] = [to |-> ownerSeen[i],
                                           opcode |-> SYSTEM_TRAY_REQUEST_DOCK,
                                           window |-> win[i]])
    /\ [][/\ \A i \in Live : win[i] # None => (win'[i] = win[i] /\ wlog'[i] = wlog[i])
          /\ created' # created => (pc = "create" /\ Len(created') = Len(created) + 1)
          /\ pc \in LoopPcs => (created' = created /\ dockMsgs' = dockMsgs)
         ]_vars

\* C18 witness: two windows, each docked with the tray that owned the selection
\* when it was created, and the owner had changed in between
C18_Witness ==
    /\ pc = "wait"
    /\ nAttr >= 2
    /\ Len(dockMsgs) = nAttr
    /\ ownerSeen[1] # None
    /\ ownerSeen[2] # None
    /\ ownerSeen[1] # ownerSeen[2]
    /\ dockMsgs[1].to # dockMsgs[2].to
====
